---- MODULE Spec2Model ----
(***************************************************************************)
(* Volume Optimizer: tier-gated quota enforcement (src/src/auth.py,        *)
(* src/src/api.py) and the recommendation engine                           *)
(* (src/src/volume_calculator.py, src/src/volume_data.py).                 *)
(*                                                                         *)
(* Every request runs as one asyncio task with a database session of its   *)
(* own (get_db).  A task can be suspended at each `await`; the code        *)
(* between two awaits runs without interruption.  One action of the model  *)
(* is one such segment.  The User object a request works with is loaded    *)
(* once, by get_current_user, and is never refreshed afterwards (the       *)
(* session is made with expire_on_commit=False): user.subscription_tier    *)
(* is the value read at that moment.                                       *)
(***************************************************************************)
EXTENDS Integers, Sequences, FiniteSets, Bags, TLC

\* ---------------------------------------------------------------- bounds
\* Registered users (rows of the users table), ids 1..NumUsers.
NumUsers == 2
\* Requests in flight at the same time (asyncio tasks).
NumTasks == 2
\* Calendar days (UTC) the clock runs through: 0..MaxDay.
MaxDay == 1
\* Requests that arrive in one run: handled concurrently (Spec), and handled
\* one at a time (SpecSeq).
MaxRequests == 2
MaxSeqRequests == 4
\* Largest current_sets the calculator is applied to (1..MaxSets); the
\* largest MRV of the table is 26.
MaxSets == 27
\* Settings.free_tier_daily_limit, pro_tier_daily_limit and
\* enterprise_tier_daily_limit (src/src/config.py:30-32).  The defaults are
\* 100, 10000 and 1000000; Settings reads them from the environment, and the
\* model runs with small values in the same order.
free_tier_daily_limit == 1
pro_tier_daily_limit == 2
enterprise_tier_daily_limit == 3

Users == 1..NumUsers
Tasks == 1..NumTasks
Days == 0..MaxDay

\* An optional value (Python's None, or a value).
None == {}
Some(x) == {x}

\* ------------------------------------------------- volume_data.py (static)
Landmark(mev, mav, mrv) == [MEV |-> mev, MAV |-> mav, MRV |-> mrv]

Levels(b, i, a) == [beginner |-> b, intermediate |-> i, advanced |-> a]

\* The ten groups of the table, with one entry out of order (MAV above MRV).
volume_landmarks_unordered ==
    [g \in {"chest", "back", "shoulders", "biceps", "triceps", "quads", "hamstrings",
            "glutes", "calves", "abs"} |->
        Levels(Landmark(8, 12, 16), Landmark(10, 21, 20), Landmark(12, 18, 24))]

\* The table without the entry of chest.
volume_landmarks_no_chest ==
    [g \in {"back", "shoulders", "biceps", "triceps", "quads", "hamstrings",
            "glutes", "calves", "abs"} |->
        Levels(Landmark(8, 12, 16), Landmark(10, 14, 20), Landmark(12, 18, 24))]

volume_landmarks ==
    [chest      |-> Levels(Landmark(8, 12, 16), Landmark(10, 15, 20), Landmark(12, 18, 24)),
     back       |-> Levels(Landmark(10, 14, 18), Landmark(12, 16, 22), Landmark(14, 20, 26)),
     shoulders  |-> Levels(Landmark(8, 12, 16), Landmark(10, 14, 20), Landmark(12, 16, 24)),
     biceps     |-> Levels(Landmark(6, 10, 14), Landmark(8, 12, 18), Landmark(10, 14, 22)),
     triceps    |-> Levels(Landmark(6, 10, 14), Landmark(8, 12, 18), Landmark(10, 14, 22)),
     quads      |-> Levels(Landmark(8, 12, 16), Landmark(10, 14, 20), Landmark(12, 18, 24)),
     hamstrings |-> Levels(Landmark(6, 10, 14), Landmark(8, 12, 18), Landmark(10, 14, 22)),
     glutes     |-> Levels(Landmark(6, 10, 14), Landmark(8, 12, 18), Landmark(10, 14, 22)),
     calves     |-> Levels(Landmark(8, 12, 16), Landmark(10, 14, 20), Landmark(12, 16, 24)),
     abs        |-> Levels(Landmark(6, 10, 14), Landmark(8, 12, 18), Landmark(10, 14, 22))]

TrainingLevels == {"beginner", "intermediate", "advanced"}
ProgressValues == {"yes", "no", "unclear"}
RecoveredValues == {"yes", "no"}
Tiers == {"free", "pro", "enterprise"}

\* Every tier given the whole table.
get_available_muscle_groups_all(subscription_tier) == {"chest", "back", "shoulders", "biceps",
    "triceps", "quads", "hamstrings", "glutes", "calves", "abs"}

get_available_muscle_groups(subscription_tier) ==
    IF subscription_tier = "free" THEN {"chest"} ELSE DOMAIN volume_landmarks

\* ------------------------------------------------------ volume_calculator.py
\* The result of recommend_volume: the text it returns, as its fixed words
\* and the number formatted into them, or the ValueError it raises.
Text(words) == <<words>>
TextSets(before, n, after) == <<before, n, after>>
ValueError == <<"ValueError", "Invalid muscle group">>

recommend_volume_lt_le(current_sets, training_level, progress, recovered, muscle_group) ==
    IF muscle_group \notin DOMAIN volume_landmarks THEN ValueError
    ELSE LET landmarks == volume_landmarks[muscle_group][training_level] IN
         IF progress = "yes" THEN Text("No change needed - continue current volume")
         ELSE IF progress = "no" THEN
              IF current_sets <= landmarks.MEV
                  THEN TextSets("Increase to at least", landmarks.MEV, "sets per week (MEV)")
              ELSE IF current_sets < landmarks.MAV /\ recovered = "yes"
                  THEN TextSets("Increase to at least", landmarks.MAV, "sets per week (MAV)")
              ELSE IF current_sets > landmarks.MRV /\ recovered = "no"
                  THEN TextSets("Decrease to at most", landmarks.MRV, "sets per week (MRV)")
              ELSE Text("Maintain current volume and reassess next week")
         ELSE Text("Reassess in two weeks with clearer progress indicators")

\* recommend_volume with the muscle group validated only where the landmarks
\* are needed (progress = "no").
recommend_volume_validates_late(current_sets, training_level, progress, recovered, muscle_group) ==
    IF progress = "yes" THEN Text("No change needed - continue current volume")
    ELSE IF progress = "unclear"
        THEN Text("Reassess in two weeks with clearer progress indicators")
    ELSE IF muscle_group \notin {"chest", "back", "shoulders", "biceps", "triceps", "quads",
                                 "hamstrings", "glutes", "calves", "abs"} THEN ValueError
    ELSE Text("Maintain current volume and reassess next week")

\* recommend_volume with the landmarks of chest for every muscle group.
recommend_volume_chest_only(current_sets, training_level, progress, recovered, muscle_group) ==
    LET mev == IF training_level = "beginner" THEN 8 ELSE IF training_level = "intermediate" THEN 10 ELSE 12
        mav == IF training_level = "beginner" THEN 12 ELSE IF training_level = "intermediate" THEN 15 ELSE 18
        mrv == IF training_level = "beginner" THEN 16 ELSE IF training_level = "intermediate" THEN 20 ELSE 24
    IN IF progress = "yes" THEN Text("No change needed - continue current volume")
       ELSE IF progress = "no" THEN
            IF current_sets < mev
                THEN TextSets("Increase to at least", mev, "sets per week (MEV)")
            ELSE IF current_sets < mav /\ recovered = "yes"
                THEN TextSets("Increase to at least", mav, "sets per week (MAV)")
            ELSE IF current_sets > mrv /\ recovered = "no"
                THEN TextSets("Decrease to at most", mrv, "sets per week (MRV)")
            ELSE Text("Maintain current volume and reassess next week")
       ELSE Text("Reassess in two weeks with clearer progress indicators")

recommend_volume(current_sets, training_level, progress, recovered, muscle_group) ==
    IF muscle_group \notin DOMAIN volume_landmarks THEN ValueError
    ELSE LET landmarks == volume_landmarks[muscle_group][training_level] IN
         IF progress = "yes" THEN Text("No change needed - continue current volume")
         ELSE IF progress = "no" THEN
              IF current_sets < landmarks.MEV
                  THEN TextSets("Increase to at least", landmarks.MEV, "sets per week (MEV)")
              ELSE IF current_sets < landmarks.MAV /\ recovered = "yes"
                  THEN TextSets("Increase to at least", landmarks.MAV, "sets per week (MAV)")
              ELSE IF current_sets > landmarks.MRV /\ recovered = "no"
                  THEN TextSets("Decrease to at most", landmarks.MRV, "sets per week (MRV)")
              ELSE Text("Maintain current volume and reassess next week")
         ELSE Text("Reassess in two weeks with clearer progress indicators")

\* ------------------------------------------------------------------ state
VARIABLES
    subscription_tier,  \* users.subscription_tier, by user id (committed rows)
    usage_logs,         \* the usage_logs table: a bag of rows (ids left out)
    training_history,   \* the training_history table: a bag of rows (ids left out)
    utcnow,             \* the UTC calendar day of the clock
    pc,                 \* where each task's request stands
    request,            \* each task's request: endpoint, credential, body
    local,              \* each task's local variables
    response,           \* each task's response, once its request is done
    arrivals,           \* the number of requests that have arrived
    call,               \* a direct call of recommend_volume: arguments, result
    settings,           \* the Settings object (src/src/config.py), made at import
    last_used_at        \* api_keys.last_used_at, by key of the rows that exist

vars == <<subscription_tier, usage_logs, training_history, utcnow,
          pc, request, local, response, arrivals, call, settings, last_used_at>>


\* Endpoints (the routes of src/src/api.py that the model covers).
PredictV1 == "/v1/predict-volume"
PredictLegacy == "/predict-volume"
Upgrade == "/subscription/upgrade"
Info == "/subscription/info"
History == "/v1/history"
Analytics == "/v1/analytics"
CreateKey == "POST /auth/api-keys"
DeleteKey == "DELETE /auth/api-keys/{key_id}"

\* The X-API-Key header of a request.  NoKey is the missing header.  The
\* key of the active user u is u itself; RevokedKey is a key of user 1 with
\* is_active false, OrphanKey an active key of a user with is_active false,
\* and UnknownKey is in no row of api_keys.  NewKey(u) is the key that
\* create_api_key makes for user u.  A key's id is the key itself.
NoKey == 0
RevokedKey == NumUsers + 1
OrphanKey == NumUsers + 2
UnknownKey == NumUsers + 3
InactiveUser == NumUsers + 1
NewKey(u) == UnknownKey + u
NewKeys == {NewKey(u) : u \in Users}
InitialKeys == Users \cup {RevokedKey, OrphanKey}

\* The columns user_id and is_active of the api_keys table, by key, and the
\* is_active column of the users table.  No route of the API changes either
\* column.  The rows of api_keys that exist are the keys of DOMAIN
\* last_used_at: InitialKeys at the start, and create_api_key and
\* delete_api_key add and remove rows.
api_keys ==
    [k \in InitialKeys \cup NewKeys |->
        IF k = RevokedKey THEN [user_id |-> 1, is_active |-> FALSE]
        ELSE IF k = OrphanKey THEN [user_id |-> InactiveUser, is_active |-> TRUE]
        ELSE IF k \in NewKeys THEN [user_id |-> k - UnknownKey, is_active |-> TRUE]
        ELSE [user_id |-> k, is_active |-> TRUE]]
user_is_active == [u \in Users \cup {InactiveUser} |-> u # InactiveUser]
BadCredentials == {NoKey, UnknownKey, RevokedKey, OrphanKey}

\* The request bodies the concurrent model sends (VolumeRequest, and the path
\* parameters of the legacy route, which has no muscle_group).
RequestGroups == {"chest", "back"}
VolumeRequests ==
    [muscle_group : RequestGroups, training_level : {"intermediate"},
     progress : {"no"}, recovered : {"yes"}, current_sets : {12}]
LegacyRequests == {b \in VolumeRequests : b.muscle_group = "chest"}
NoBody == CHOOSE b \in LegacyRequests : TRUE

\* SubscriptionUpgrade.tier (src/src/models.py:91).
UpgradeTiers == {"pro", "enterprise"}

Requests ==
    [endpoint : {PredictV1}, api_key : Users, body : VolumeRequests, tier : {"pro"}, key_id : {NoKey}]
    \cup [endpoint : {PredictLegacy}, api_key : Users, body : LegacyRequests, tier : {"pro"}, key_id : {NoKey}]
    \cup [endpoint : {Upgrade}, api_key : Users, body : {NoBody}, tier : UpgradeTiers,
          key_id : {NoKey}]
    \cup [endpoint : {Info}, api_key : Users, body : {NoBody}, tier : {"pro"}, key_id : {NoKey}]
    \cup [endpoint : {PredictV1}, api_key : BadCredentials, body : {NoBody}, tier : {"pro"}, key_id : {NoKey}]
    \cup [endpoint : {PredictLegacy, Upgrade, Info}, api_key : {NoKey},
          body : {NoBody}, tier : {"pro"}, key_id : {NoKey}]

NoRequest == [endpoint |-> "", api_key |-> NoKey, body |-> NoBody, tier |-> "pro", key_id |-> NoKey]

\* The requests of the model that has the query routes as well: one body per
\* recommendation route, and the history and analytics queries of each user
\* (history without the muscle_group filter, api.py:374).
QueryRequests ==
    {r \in Requests : r.api_key \in Users /\ r.body \in LegacyRequests /\ r.tier = "pro"}
    \cup [endpoint : {History, Analytics}, api_key : Users, body : {NoBody}, tier : {"pro"},
          key_id : {NoKey}]

\* The requests of the model that has the key routes as well: a user makes a
\* key, deletes a key by its id (the key of the request, or the new key of
\* user 1, which is user 1's own if it exists and is not a key of the other
\* users), and queries its history with the key it has made.
KeyIds(api_key) == {api_key, NewKey(1)}
AllRequests ==
    QueryRequests
    \cup [endpoint : {CreateKey}, api_key : Users, body : {NoBody}, tier : {"pro"},
          key_id : {NoKey}]
    \cup {r \in [endpoint : {DeleteKey}, api_key : Users, body : {NoBody}, tier : {"pro"},
                  key_id : Users \cup NewKeys] : r.key_id \in KeyIds(r.api_key)}
    \cup [endpoint : {History}, api_key : NewKeys, body : {NoBody}, tier : {"pro"},
          key_id : {NoKey}]

\* A task's local variables that live across an await: the User object of
\* its session (id and the subscription_tier loaded with it) and the
\* handler's prediction.  check_rate_limit's today, usage_count and limit are
\* not used after the segment that sets them.
NoLocal == [user_id |-> NoKey, subscription_tier |-> "free", prediction |-> <<>>]

\* A response: the HTTP status, and of the body the fields the endpoints set.
NoResponse ==
    [status |-> 0, volume_prediction |-> <<>>, landmarks |-> None, new_tier |-> "", info |-> None,
     detail |-> None, history |-> None, analytics |-> None, key |-> None]
HTTPException(status_code) == [NoResponse EXCEPT !.status = status_code]

\* Arguments of a direct call of recommend_volume.
CallGroups == DOMAIN volume_landmarks \cup {"forearms"}
CallArgs ==
    [muscle_group : CallGroups, training_level : TrainingLevels,
     progress : ProgressValues, recovered : RecoveredValues, current_sets : 1..MaxSets]
NoCall == [args |-> NoBody, returned |-> FALSE, result |-> <<>>]

\* Settings(): the defaults of the class, and the values the model's
\* environment gives (FREE_TIER_DAILY_LIMIT and so on).
Settings ==
    [free_tier_daily_limit |-> 100, pro_tier_daily_limit |-> 10000,
     enterprise_tier_daily_limit |-> 1000000]
Environment ==
    [free_tier_daily_limit |-> free_tier_daily_limit,
     pro_tier_daily_limit |-> pro_tier_daily_limit,
     enterprise_tier_daily_limit |-> enterprise_tier_daily_limit]

Init ==
    /\ subscription_tier = [u \in Users |-> "free"]
    /\ usage_logs = EmptyBag
    /\ training_history = EmptyBag
    /\ utcnow = 0
    /\ pc = [t \in Tasks |-> "idle"]
    /\ request = [t \in Tasks |-> NoRequest]
    /\ local = [t \in Tasks |-> NoLocal]
    /\ response = [t \in Tasks |-> NoResponse]
    /\ arrivals = 0
    /\ call = NoCall
    /\ settings = Environment
    /\ last_used_at = [k \in InitialKeys |-> None]

\* A request that arrives is given the lowest task that has none in progress.
Free(t) == pc[t] \in {"idle", "done", "cancelled"}
FreeTask == IF \E t \in Tasks : Free(t) THEN CHOOSE t \in Tasks : Free(t) /\ \A s \in 1..(t - 1) : ~Free(s)
            ELSE 0

\* ------------------------------------------------------------------ auth.py
\* key.last_used_at = datetime.utcnow(): the column holds a time.  The model
\* keeps that the column is set, and not which time it holds.
Stamped == Some("datetime")

\* The lookup without the is_active condition on the key.
get_user_by_api_key_any_key(api_key) ==
    IF /\ api_key \in DOMAIN last_used_at
       /\ user_is_active[api_keys[api_key].user_id]
      THEN Some(api_keys[api_key].user_id)
      ELSE None

\* select api_keys join users where key = :key and api_keys.is_active and
\* users.is_active: the user of the row, or None.
get_user_by_api_key(api_key) ==
    IF /\ api_key \in DOMAIN last_used_at
       /\ api_keys[api_key].is_active
       /\ user_is_active[api_keys[api_key].user_id]
      THEN Some(api_keys[api_key].user_id)
      ELSE None

\* get_current_user (with get_user_by_api_key): a request arrives at task t;
\* 401 without a key or without a user for it, else the key is stamped and
\* the User row is loaded into the session.
get_current_user(t, r) ==
    /\ t = FreeTask
    /\ arrivals' = arrivals + 1
    /\ request' = [request EXCEPT ![t] = r]
    /\ IF r.api_key = NoKey \/ get_user_by_api_key(r.api_key) = None
         THEN /\ pc' = [pc EXCEPT ![t] = "done"]
              /\ local' = [local EXCEPT ![t] = NoLocal]
              /\ response' = [response EXCEPT ![t] = HTTPException(401)]
              /\ UNCHANGED last_used_at
         ELSE LET user == CHOOSE u \in get_user_by_api_key(r.api_key) : TRUE
              IN /\ last_used_at' = [last_used_at EXCEPT ![r.api_key] = Stamped]
                 /\ pc' = [pc EXCEPT ![t] = "handler"]
                 /\ local' = [local EXCEPT ![t] =
                        [NoLocal EXCEPT !.user_id = user,
                                        !.subscription_tier = subscription_tier[user]]]
                 /\ response' = [response EXCEPT ![t] = NoResponse]
    /\ UNCHANGED <<subscription_tier, usage_logs, training_history, utcnow, call, settings>>

\* The count without the condition on the user.
UsageCount_all_users(logs, user_id, today) ==
    LET rows == {row \in DOMAIN logs : row.created_at = today}
    IN BagCardinality([row \in rows |-> logs[row]])

\* The count without the condition on the date.
UsageCount_all_days(logs, user_id, today) ==
    LET rows == {row \in DOMAIN logs : row.user_id = user_id}
    IN BagCardinality([row \in rows |-> logs[row]])

\* select count(usage_logs.id) where user_id = :id and date(created_at) = :today
UsageCount(logs, user_id, today) ==
    LET rows == {row \in DOMAIN logs : row.user_id = user_id /\ row.created_at = today}
    IN BagCardinality([row \in rows |-> logs[row]])

\* db.add(row); await db.commit()
Insert(table, row) == table (+) SetToBag({row})

\* limits.get(user.subscription_tier, limits["free"])
\* The limit of the free tier for every tier.
DailyLimit_free_only(tier) == settings.free_tier_daily_limit

DailyLimit(tier) ==
    CASE tier = "free" -> settings.free_tier_daily_limit
      [] tier = "pro" -> settings.pro_tier_daily_limit
      [] tier = "enterprise" -> settings.enterprise_tier_daily_limit
      [] OTHER -> settings.free_tier_daily_limit

LimitReached_gt(usage_count, limit) == usage_count > limit

\* if usage_count >= limit: raise 429
LimitReached(usage_count, limit) == usage_count >= limit

\* 429, "Rate limit exceeded. Your {user.subscription_tier} tier allows {limit}
\* requests per day."
RateLimitExceeded(tier, limit) ==
    [HTTPException(429) EXCEPT !.detail = Some([tier |-> tier, limit |-> limit])]

RateLimited(endpoint) == endpoint \in {PredictV1, PredictLegacy}

UsageLog(user_id, endpoint) == [user_id |-> user_id, endpoint |-> endpoint, created_at |-> utcnow]

\* check_rate_limit up to its commit, with the denied request logged as well.
check_rate_limit_count_logs_denied(t) ==
    /\ pc[t] = "handler"
    /\ RateLimited(request[t].endpoint)
    /\ LET usage_count == UsageCount(usage_logs, local[t].user_id, utcnow)
           limit == DailyLimit(local[t].subscription_tier)
       IN /\ usage_logs' = IF LimitReached(usage_count, limit)
                             THEN Insert(usage_logs, UsageLog(local[t].user_id, request[t].endpoint))
                             ELSE usage_logs
          /\ IF LimitReached(usage_count, limit)
               THEN /\ pc' = [pc EXCEPT ![t] = "done"]
                    /\ response' = [response EXCEPT ![t] =
                            RateLimitExceeded(local[t].subscription_tier, limit)]
               ELSE /\ pc' = [pc EXCEPT ![t] = "commit_usage"]
                    /\ UNCHANGED response
    /\ UNCHANGED <<subscription_tier, training_history, utcnow, request, local, arrivals, call, settings, last_used_at>>

\* check_rate_limit, first part: today's date, the count of today's rows of
\* the user, and the comparison with the tier's limit; 429 when reached.
\* Otherwise the new row is added to the session and the task awaits the
\* commit.
check_rate_limit_count(t) ==
    /\ pc[t] = "handler"
    /\ RateLimited(request[t].endpoint)
    /\ LET usage_count == UsageCount(usage_logs, local[t].user_id, utcnow)
           limit == DailyLimit(local[t].subscription_tier)
       IN /\ IF LimitReached(usage_count, limit)
               THEN /\ pc' = [pc EXCEPT ![t] = "done"]
                    /\ response' = [response EXCEPT ![t] =
                            RateLimitExceeded(local[t].subscription_tier, limit)]
               ELSE /\ pc' = [pc EXCEPT ![t] = "commit_usage"]
                    /\ UNCHANGED response
    /\ UNCHANGED <<subscription_tier, usage_logs, training_history, utcnow, request, local, arrivals, call, settings, last_used_at>>

\* check_rate_limit, second part: the commit inserts the row (created_at is
\* the server's time of the insert), and check_rate_limit returns to the
\* handler, which runs on to its next await or to its response.
check_rate_limit_commit(t) ==
    /\ pc[t] = "commit_usage"
    /\ usage_logs' = Insert(usage_logs, UsageLog(local[t].user_id, request[t].endpoint))

\* ------------------------------------------------------------------- api.py
\* The landmarks field of VolumeResponse, given to every tier.
ResponseLandmarks_all_tiers(tier, muscle_group, training_level) ==
    Some(volume_landmarks[muscle_group][training_level])

\* landmarks=volume_landmarks[...][...] if user.subscription_tier != "free" else None
ResponseLandmarks(tier, muscle_group, training_level) ==
    IF tier # "free" THEN Some(volume_landmarks[muscle_group][training_level]) ELSE None

VolumeResponse(tier, body, prediction) ==
    [NoResponse EXCEPT !.status = 200,
                       !.volume_prediction = prediction,
                       !.landmarks = ResponseLandmarks(tier, body.muscle_group, body.training_level)]

TrainingHistory(user_id, body, prediction) ==
    [user_id |-> user_id, muscle_group |-> body.muscle_group,
     current_sets |-> body.current_sets, recommended_sets |-> prediction,
     training_level |-> body.training_level, progress |-> body.progress,
     recovered |-> body.recovered]

\* predict_volume_v1 with the user's row read again after the commit of
\* check_rate_limit: the stages that follow work with the committed tier.
predict_volume_v1_rereads_tier(t) ==
    /\ request[t].endpoint = PredictV1
    /\ check_rate_limit_commit(t)
    /\ LET body == request[t].body
           tier == subscription_tier[local[t].user_id]
           prediction == recommend_volume(body.current_sets, body.training_level,
                                          body.progress, body.recovered, body.muscle_group)
       IN IF body.muscle_group \notin get_available_muscle_groups(tier)
            THEN /\ pc' = [pc EXCEPT ![t] = "done"]
                 /\ response' = [response EXCEPT ![t] = HTTPException(403)]
                 /\ UNCHANGED local
          ELSE IF tier \in {"pro", "enterprise"}
            THEN /\ pc' = [pc EXCEPT ![t] = "commit_history"]
                 /\ local' = [local EXCEPT ![t].prediction = prediction]
                 /\ UNCHANGED response
          ELSE /\ pc' = [pc EXCEPT ![t] = "done"]
               /\ local' = [local EXCEPT ![t].prediction = prediction]
               /\ response' = [response EXCEPT ![t] = VolumeResponse(tier, body, prediction)]
    /\ UNCHANGED <<subscription_tier, training_history, utcnow, request, arrivals, call, settings,
                   last_used_at>>

\* predict_volume_v1 after check_rate_limit has returned: the muscle-group
\* check (403), the calculation (400 on ValueError), and then either the
\* response (free) or the history row added and its commit awaited.
predict_volume_v1(t) ==
    /\ request[t].endpoint = PredictV1
    /\ check_rate_limit_commit(t)
    /\ LET body == request[t].body
           tier == local[t].subscription_tier
           prediction == recommend_volume(body.current_sets, body.training_level,
                                          body.progress, body.recovered, body.muscle_group)
       IN IF body.muscle_group \notin get_available_muscle_groups(tier)
            THEN /\ pc' = [pc EXCEPT ![t] = "done"]
                 /\ response' = [response EXCEPT ![t] = HTTPException(403)]
                 /\ UNCHANGED local
          ELSE IF prediction = ValueError
            THEN /\ pc' = [pc EXCEPT ![t] = "done"]
                 /\ response' = [response EXCEPT ![t] = HTTPException(400)]
                 /\ UNCHANGED local
          ELSE IF tier \in {"pro", "enterprise"}
            THEN /\ pc' = [pc EXCEPT ![t] = "commit_history"]
                 /\ local' = [local EXCEPT ![t].prediction = prediction]
                 /\ UNCHANGED response
          ELSE /\ pc' = [pc EXCEPT ![t] = "done"]
               /\ local' = [local EXCEPT ![t].prediction = prediction]
               /\ response' = [response EXCEPT ![t] = VolumeResponse(tier, body, prediction)]
    /\ UNCHANGED <<subscription_tier, training_history, utcnow, request, arrivals, call, settings, last_used_at>>

\* predict_volume_v1: the commit of the history row succeeds, and the
\* response is returned.
history_commit(t) ==
    /\ pc[t] = "commit_history"
    /\ training_history' = Insert(training_history,
            TrainingHistory(local[t].user_id, request[t].body, local[t].prediction))
    /\ pc' = [pc EXCEPT ![t] = "done"]
    /\ response' = [response EXCEPT ![t] =
            VolumeResponse(local[t].subscription_tier, request[t].body, local[t].prediction)]
    /\ UNCHANGED <<subscription_tier, usage_logs, utcnow, request, local, arrivals, call, settings, last_used_at>>

\* predict_volume_v1: the commit of the history row raises (the database is
\* locked, the disk is full, the connection is lost).  No handler catches
\* the exception: the request ends with 500 and the row is not stored.
history_commit_fails(t) ==
    /\ pc[t] = "commit_history"
    /\ pc' = [pc EXCEPT ![t] = "done"]
    /\ response' = [response EXCEPT ![t] = HTTPException(500)]
    /\ UNCHANGED <<subscription_tier, usage_logs, training_history, utcnow, request, local, arrivals, call, settings, last_used_at>>

\* predict_volume_legacy after check_rate_limit has returned.
predict_volume_legacy(t) ==
    /\ request[t].endpoint = PredictLegacy
    /\ check_rate_limit_commit(t)
    /\ LET body == request[t].body
           result == recommend_volume(body.current_sets, body.training_level,
                                      body.progress, body.recovered, "chest")
       IN /\ local' = [local EXCEPT ![t].prediction = result]
          /\ response' = [response EXCEPT ![t] =
                [NoResponse EXCEPT !.status = 200, !.volume_prediction = result]]
    /\ pc' = [pc EXCEPT ![t] = "done"]
    /\ UNCHANGED <<subscription_tier, training_history, utcnow, request, arrivals, call, settings, last_used_at>>

\* The daily_limit of the subscription-info response, with the free limit
\* for every tier.
daily_limit_free_only(tier) == settings.free_tier_daily_limit

\* get_subscription_info: limits.get(user.subscription_tier, limits["free"])
daily_limit(tier) ==
    CASE tier = "free" -> settings.free_tier_daily_limit
      [] tier = "pro" -> settings.pro_tier_daily_limit
      [] tier = "enterprise" -> settings.enterprise_tier_daily_limit
      [] OTHER -> settings.free_tier_daily_limit

SubscriptionInfo(tier, limit, usage_today, available_muscle_groups) ==
    [tier |-> tier, daily_limit |-> limit, usage_today |-> usage_today,
     available_muscle_groups |-> available_muscle_groups]

\* get_subscription_info: today's usage is counted, and the tier, its limit,
\* the count and the visible muscle groups are returned.
get_subscription_info(t) ==
    /\ pc[t] = "handler"
    /\ request[t].endpoint = Info
    /\ LET tier == local[t].subscription_tier
           usage_today == UsageCount(usage_logs, local[t].user_id, utcnow)
       IN response' = [response EXCEPT ![t] =
            [NoResponse EXCEPT !.status = 200,
                !.info = Some(SubscriptionInfo(tier, daily_limit(tier), usage_today,
                                               get_available_muscle_groups(tier)))]]
    /\ pc' = [pc EXCEPT ![t] = "done"]
    /\ UNCHANGED <<subscription_tier, usage_logs, training_history, utcnow, request, local,
                   arrivals, call, settings, last_used_at>>

tier_hierarchy(tier) ==
    CASE tier = "free" -> 0 [] tier = "pro" -> 1 [] tier = "enterprise" -> 2

\* upgrade_subscription with a usage row written for the request.
upgrade_subscription_logs_usage(t) ==
    /\ pc[t] = "handler"
    /\ request[t].endpoint = Upgrade
    /\ LET current_level == tier_hierarchy(local[t].subscription_tier)
           target_level == tier_hierarchy(request[t].tier)
       IN IF target_level <= current_level
            THEN /\ response' = [response EXCEPT ![t] = HTTPException(400)]
                 /\ UNCHANGED <<subscription_tier, local>>
            ELSE /\ subscription_tier' =
                        [subscription_tier EXCEPT ![local[t].user_id] = request[t].tier]
                 /\ local' = [local EXCEPT ![t].subscription_tier = request[t].tier]
                 /\ response' = [response EXCEPT ![t] =
                        [NoResponse EXCEPT !.status = 200, !.new_tier = request[t].tier]]
    /\ usage_logs' = Insert(usage_logs, UsageLog(local[t].user_id, request[t].endpoint))
    /\ pc' = [pc EXCEPT ![t] = "done"]
    /\ UNCHANGED <<training_history, utcnow, request, arrivals, call, settings, last_used_at>>

\* upgrade_subscription: the upgrade path is validated against the tier of
\* the session's User object; then the attribute is set and committed.
upgrade_subscription(t) ==
    /\ pc[t] = "handler"
    /\ request[t].endpoint = Upgrade
    /\ LET current_level == tier_hierarchy(local[t].subscription_tier)
           target_level == tier_hierarchy(request[t].tier)
       IN IF target_level <= current_level
            THEN /\ response' = [response EXCEPT ![t] = HTTPException(400)]
                 /\ UNCHANGED <<subscription_tier, local>>
            ELSE /\ subscription_tier' =
                        [subscription_tier EXCEPT ![local[t].user_id] = request[t].tier]
                 /\ local' = [local EXCEPT ![t].subscription_tier = request[t].tier]
                 /\ response' = [response EXCEPT ![t] =
                        [NoResponse EXCEPT !.status = 200, !.new_tier = request[t].tier]]
    /\ pc' = [pc EXCEPT ![t] = "done"]
    /\ UNCHANGED <<usage_logs, training_history, utcnow, request, arrivals, call, settings, last_used_at>>

\* ------------------------------------------------- api.py: history, analytics
QueryEndpoints == {History, Analytics}

\* get_training_history with check_rate_limit called before the tier is
\* looked at: the free identity is refused after its usage row is stored.
get_training_history_quota_first(t) ==
    /\ pc[t] = "handler"
    /\ request[t].endpoint = History
    /\ LET usage_count == UsageCount(usage_logs, local[t].user_id, utcnow)
           limit == DailyLimit(local[t].subscription_tier)
       IN IF LimitReached(usage_count, limit)
            THEN /\ pc' = [pc EXCEPT ![t] = "done"]
                 /\ response' = [response EXCEPT ![t] =
                        RateLimitExceeded(local[t].subscription_tier, limit)]
                 /\ UNCHANGED usage_logs
          ELSE IF local[t].subscription_tier = "free"
            THEN /\ pc' = [pc EXCEPT ![t] = "done"]
                 /\ response' = [response EXCEPT ![t] = HTTPException(403)]
                 /\ usage_logs' = Insert(usage_logs, UsageLog(local[t].user_id, History))
          ELSE /\ pc' = [pc EXCEPT ![t] = "commit_usage"]
               /\ UNCHANGED <<response, usage_logs>>
    /\ UNCHANGED <<subscription_tier, training_history, utcnow, request, local, arrivals,
                   call, settings, last_used_at>>

\* get_training_history up to the commit of check_rate_limit: 403 for the
\* free tier; otherwise check_rate_limit counts today's rows of the user and
\* compares with the tier's limit (429 when reached, else the row is added
\* to the session and the task awaits the commit).
get_training_history(t) ==
    /\ pc[t] = "handler"
    /\ request[t].endpoint = History
    /\ IF local[t].subscription_tier = "free"
         THEN /\ pc' = [pc EXCEPT ![t] = "done"]
              /\ response' = [response EXCEPT ![t] = HTTPException(403)]
         ELSE LET usage_count == UsageCount(usage_logs, local[t].user_id, utcnow)
                  limit == DailyLimit(local[t].subscription_tier)
              IN IF LimitReached(usage_count, limit)
                   THEN /\ pc' = [pc EXCEPT ![t] = "done"]
                        /\ response' = [response EXCEPT ![t] =
                                RateLimitExceeded(local[t].subscription_tier, limit)]
                   ELSE /\ pc' = [pc EXCEPT ![t] = "commit_usage"]
                        /\ UNCHANGED response
    /\ UNCHANGED <<subscription_tier, usage_logs, training_history, utcnow, request, local,
                   arrivals, call, settings, last_used_at>>

\* get_analytics with a count of its own: only today's rows of the user with
\* the endpoint /v1/analytics are compared with the limit.
get_analytics_own_counter(t) ==
    /\ pc[t] = "handler"
    /\ request[t].endpoint = Analytics
    /\ IF local[t].subscription_tier = "free"
         THEN /\ pc' = [pc EXCEPT ![t] = "done"]
              /\ response' = [response EXCEPT ![t] = HTTPException(403)]
         ELSE LET rows == {row \in DOMAIN usage_logs : row.endpoint = Analytics}
                  usage_count == UsageCount([row \in rows |-> usage_logs[row]],
                                            local[t].user_id, utcnow)
                  limit == DailyLimit(local[t].subscription_tier)
              IN IF LimitReached(usage_count, limit)
                   THEN /\ pc' = [pc EXCEPT ![t] = "done"]
                        /\ response' = [response EXCEPT ![t] =
                                RateLimitExceeded(local[t].subscription_tier, limit)]
                   ELSE /\ pc' = [pc EXCEPT ![t] = "commit_usage"]
                        /\ UNCHANGED response
    /\ UNCHANGED <<subscription_tier, usage_logs, training_history, utcnow, request, local,
                   arrivals, call, settings, last_used_at>>

\* get_analytics up to the commit of check_rate_limit, as get_training_history.
get_analytics(t) ==
    /\ pc[t] = "handler"
    /\ request[t].endpoint = Analytics
    /\ IF local[t].subscription_tier = "free"
         THEN /\ pc' = [pc EXCEPT ![t] = "done"]
              /\ response' = [response EXCEPT ![t] = HTTPException(403)]
         ELSE LET usage_count == UsageCount(usage_logs, local[t].user_id, utcnow)
                  limit == DailyLimit(local[t].subscription_tier)
              IN IF LimitReached(usage_count, limit)
                   THEN /\ pc' = [pc EXCEPT ![t] = "done"]
                        /\ response' = [response EXCEPT ![t] =
                                RateLimitExceeded(local[t].subscription_tier, limit)]
                   ELSE /\ pc' = [pc EXCEPT ![t] = "commit_usage"]
                        /\ UNCHANGED response
    /\ UNCHANGED <<subscription_tier, usage_logs, training_history, utcnow, request, local,
                   arrivals, call, settings, last_used_at>>

\* In both query handlers: the commit of check_rate_limit inserts the usage
\* row, check_rate_limit returns, and the handler sends its select and awaits
\* the rows.
select_training_history(t) ==
    /\ request[t].endpoint \in QueryEndpoints
    /\ check_rate_limit_commit(t)
    /\ pc' = [pc EXCEPT ![t] = "query"]
    /\ UNCHANGED <<subscription_tier, training_history, utcnow, request, local, response,
                   arrivals, call, settings, last_used_at>>

\* select training_history where user_id = :id: the user's rows.
UserHistory(user_id) ==
    LET rows == {row \in DOMAIN training_history : row.user_id = user_id}
    IN [row \in rows |-> training_history[row]]

\* TrainingHistoryResponse of a row (id and created_at left out, as in the
\* table of the model).
TrainingHistoryResponse(h) ==
    [muscle_group |-> h.muscle_group, current_sets |-> h.current_sets,
     recommended_sets |-> h.recommended_sets, training_level |-> h.training_level,
     progress |-> h.progress, recovered |-> h.recovered]

\* The number of rows of a bag of rows that satisfy a condition given as the
\* set of the rows that do.
Count(history, rows) == BagCardinality([row \in DOMAIN history \cap rows |-> history[row]])

\* get_training_history, last part: the rows of the user as responses (the
\* table of the model stays below the default limit of 50 rows).
get_training_history_rows(t) ==
    /\ pc[t] = "query"
    /\ request[t].endpoint = History
    /\ LET history == UserHistory(local[t].user_id)
       IN response' = [response EXCEPT ![t] =
            [NoResponse EXCEPT !.status = 200,
                !.history = Some({<<TrainingHistoryResponse(h), history[h]>> :
                                    h \in DOMAIN history})]]
    /\ pc' = [pc EXCEPT ![t] = "done"]
    /\ UNCHANGED <<subscription_tier, usage_logs, training_history, utcnow, request, local,
                   arrivals, call, settings, last_used_at>>

\* AnalyticsResponse: the number of rows, the muscle groups, and the rows
\* by their progress (average_weekly_volume and recent_history are left
\* out).
AnalyticsResponse(all_history) ==
    [total_workouts_logged |-> BagCardinality(all_history),
     muscle_groups_tracked |-> {h.muscle_group : h \in DOMAIN all_history},
     progress_trend |->
        [p \in ProgressValues |->
            Count(all_history, {h \in DOMAIN all_history : h.progress = p})]]

\* get_analytics, last part.
get_analytics_rows(t) ==
    /\ pc[t] = "query"
    /\ request[t].endpoint = Analytics
    /\ response' = [response EXCEPT ![t] =
            [NoResponse EXCEPT !.status = 200,
                !.analytics = Some(AnalyticsResponse(UserHistory(local[t].user_id)))]]
    /\ pc' = [pc EXCEPT ![t] = "done"]
    /\ UNCHANGED <<subscription_tier, usage_logs, training_history, utcnow, request, local,
                   arrivals, call, settings, last_used_at>>

\* ------------------------------------------------------- api.py: API keys
\* The function f without the argument k.
Without(f, k) == [x \in DOMAIN f \ {k} |-> f[x]]

\* create_api_key: the row of the new key (active, never used) is added and
\* committed, and the key is returned.
create_api_key(t) ==
    /\ pc[t] = "handler"
    /\ request[t].endpoint = CreateKey
    /\ LET api_key == NewKey(local[t].user_id)
       IN /\ api_key \notin DOMAIN last_used_at
          /\ last_used_at' = [k \in DOMAIN last_used_at \cup {api_key} |->
                                IF k = api_key THEN None ELSE last_used_at[k]]
          /\ response' = [response EXCEPT ![t] =
                [NoResponse EXCEPT !.status = 200, !.key = Some(api_key)]]
    /\ pc' = [pc EXCEPT ![t] = "done"]
    /\ UNCHANGED <<subscription_tier, usage_logs, training_history, utcnow, request, local,
                   arrivals, call, settings>>

\* delete_api_key, first part: the select of the key by its id and the id of
\* the user; 404 without a row, else the task awaits the delete.
delete_api_key(t) ==
    /\ pc[t] = "handler"
    /\ request[t].endpoint = DeleteKey
    /\ LET key_id == request[t].key_id
       IN IF key_id \in DOMAIN last_used_at /\ api_keys[key_id].user_id = local[t].user_id
            THEN /\ pc' = [pc EXCEPT ![t] = "commit_delete"]
                 /\ UNCHANGED response
            ELSE /\ pc' = [pc EXCEPT ![t] = "done"]
                 /\ response' = [response EXCEPT ![t] = HTTPException(404)]
    /\ UNCHANGED <<subscription_tier, usage_logs, training_history, utcnow, request, local,
                   arrivals, call, settings, last_used_at>>

\* The delete that takes the usage rows of the key's user with it.
delete_api_key_commit_cascade(t) ==
    /\ pc[t] = "commit_delete"
    /\ LET rows == {row \in DOMAIN usage_logs : row.user_id # local[t].user_id}
       IN usage_logs' = [row \in rows |-> usage_logs[row]]
    /\ last_used_at' = Without(last_used_at, request[t].key_id)
    /\ response' = [response EXCEPT ![t] =
            IF request[t].key_id \in DOMAIN last_used_at
              THEN [NoResponse EXCEPT !.status = 200]
              ELSE HTTPException(500)]
    /\ pc' = [pc EXCEPT ![t] = "done"]
    /\ UNCHANGED <<subscription_tier, training_history, utcnow, request, local,
                   arrivals, call, settings>>

\* delete_api_key, second part: the row is deleted and the delete committed.
\* When another request has deleted the row since the select, the flush
\* matches no row and raises (the response is 500).
delete_api_key_commit(t) ==
    /\ pc[t] = "commit_delete"
    /\ last_used_at' = Without(last_used_at, request[t].key_id)
    /\ response' = [response EXCEPT ![t] =
            IF request[t].key_id \in DOMAIN last_used_at
              THEN [NoResponse EXCEPT !.status = 200]
              ELSE HTTPException(500)]
    /\ pc' = [pc EXCEPT ![t] = "done"]
    /\ UNCHANGED <<subscription_tier, usage_logs, training_history, utcnow, request, local,
                   arrivals, call, settings>>

\* ----------------------------------------------------------- cancellation
\* The task of a request is cancelled while it is suspended at an await (a
\* deadline of an enclosing layer, asyncio.wait_for or a shutdown, raises
\* CancelledError there).  No handler catches it; get_db closes the session,
\* which discards what the session has not committed.  What earlier commits
\* of the request have stored stays.
cancel(t) ==
    /\ pc[t] \in {"handler", "commit_usage", "commit_history", "query", "commit_delete"}
    /\ pc' = [pc EXCEPT ![t] = "cancelled"]
    /\ UNCHANGED <<subscription_tier, usage_logs, training_history, utcnow, request, local,
                   response, arrivals, call, settings, last_used_at>>

\* ------------------------------------------------------------------ clock
\* Midnight (UTC) passes.
Midnight ==
    /\ utcnow < MaxDay
    /\ utcnow' = utcnow + 1
    /\ UNCHANGED <<subscription_tier, usage_logs, training_history,
                   pc, request, local, response, arrivals, call, settings, last_used_at>>

\* ------------------------------------------------------- the specifications
Arrive(t, max) ==
    /\ arrivals < max
    /\ \E r \in Requests : get_current_user(t, r)

Resume(t) ==
    \/ check_rate_limit_count(t)
    \/ predict_volume_v1(t)
    \/ history_commit(t)
    \/ history_commit_fails(t)
    \/ predict_volume_legacy(t)
    \/ upgrade_subscription(t)
    \/ get_subscription_info(t)
    \/ cancel(t)

Next ==
    \/ Midnight
    \/ \E t \in Tasks : Arrive(t, MaxRequests)
    \/ \E t \in Tasks : Resume(t)

\* Requests handled concurrently.
Spec == Init /\ [][Next]_vars

\* Requests handled concurrently by a server whose environment sets none of
\* the limits: Settings() has the defaults of the class.
InitDefault ==
    /\ Init!1 /\ Init!2 /\ Init!3 /\ Init!4 /\ Init!5 /\ Init!6 /\ Init!7 /\ Init!8 /\ Init!9
    /\ Init!10
    /\ settings = Settings
    /\ Init!12

SpecDefault == InitDefault /\ [][Next]_vars

\* Requests handled one at a time: a request arrives only when no other is in
\* progress.
Quiet == \A t \in Tasks : Free(t)

NextSeq ==
    \/ Midnight
    \/ \E t \in Tasks : Quiet /\ Arrive(t, MaxSeqRequests)
    \/ \E t \in Tasks : Resume(t)

SpecSeq == Init /\ [][NextSeq]_vars

\* Direct calls of recommend_volume (as src/tests/test_calculator.py makes).
InitCall ==
    /\ Init!1 /\ Init!2 /\ Init!3 /\ Init!4 /\ Init!5 /\ Init!6 /\ Init!7 /\ Init!8 /\ Init!9
    /\ call \in [args : CallArgs, returned : {FALSE}, result : {<<>>}]
    /\ Init!11 /\ Init!12

Call ==
    /\ ~call.returned
    /\ call' = [call EXCEPT !.returned = TRUE,
                            !.result = recommend_volume(call.args.current_sets,
                                call.args.training_level, call.args.progress,
                                call.args.recovered, call.args.muscle_group)]
    /\ UNCHANGED <<subscription_tier, usage_logs, training_history, utcnow,
                   pc, request, local, response, arrivals, settings, last_used_at>>

SpecCall == InitCall /\ [][Call]_vars

\* The routes of Resume and the history and analytics queries.
ResumeQuery(t) ==
    \/ Resume(t)
    \/ get_training_history(t)
    \/ get_analytics(t)
    \/ select_training_history(t)
    \/ get_training_history_rows(t)
    \/ get_analytics_rows(t)

ArriveQuery(t, max) ==
    /\ arrivals < max
    /\ \E r \in QueryRequests : get_current_user(t, r)

\* The recommendation, subscription and query routes, with requests handled
\* one at a time.
NextQuerySeq ==
    \/ Midnight
    \/ \E t \in Tasks : Quiet /\ ArriveQuery(t, MaxSeqRequests)
    \/ \E t \in Tasks : ResumeQuery(t)

SpecQuerySeq == Init /\ [][NextQuerySeq]_vars

\* A request to make a key arrives when the user's new key does not exist and
\* no other request is making it (the model has one new key per user).
ArriveAll(t, max) ==
    /\ arrivals < max
    /\ \E r \in AllRequests :
        /\ r.endpoint = CreateKey =>
            /\ NewKey(r.api_key) \notin DOMAIN last_used_at
            /\ \A s \in Tasks :
                ~(~Free(s) /\ request[s].endpoint = CreateKey /\ local[s].user_id = r.api_key)
        /\ get_current_user(t, r)

\* All the routes of the model, with requests handled concurrently.
NextAll ==
    \/ Midnight
    \/ \E t \in Tasks : ArriveAll(t, MaxRequests)
    \/ \E t \in Tasks : ResumeQuery(t)
    \/ \E t \in Tasks : create_api_key(t)
    \/ \E t \in Tasks : delete_api_key(t)
    \/ \E t \in Tasks : delete_api_key_commit(t)

SpecAll == Init /\ [][NextAll]_vars

\* ================================================================= claims
\* The identity of task t's request, and what the request asks for.
Identity(t) == request[t].api_key
InProgress(t) == ~Free(t)
\* Task t takes a step of its code (it is not cancelled).
Steps(t) == (pc'[t] # pc[t] \/ request'[t] # request[t]) /\ pc'[t] # "cancelled"
\* Task t, whose request is in progress, ends it with a response.
Responds(t) == InProgress(t) /\ pc'[t] = "done"
\* Task t runs the first segment of check_rate_limit (count and comparison).
Checks(t) == pc[t] = "handler" /\ RateLimited(request[t].endpoint) /\ Steps(t)

\* C1: under any interleaving of concurrent requests of one identity, the
\* number of its usage rows of one day never exceeds the daily limit of its
\* tier (the count and the insert of check_rate_limit act as one unit).
C1_CheckAndRecordAtomic ==
    \A u \in Users : \A d \in Days :
        UsageCount(usage_logs, u, d) <= DailyLimit(subscription_tier[u])

C3_DenialAppendsNothing ==
    [][\A t \in Tasks : (Responds(t) /\ response'[t].status = 429) =>
            usage_logs' = usage_logs]_vars

\* C3, witness: a request has been denied with 429 while its identity has
\* rows for today.
C3_Witness ==
    \E t \in Tasks :
        /\ pc[t] = "done" /\ response[t].status = 429
        /\ UsageCount(usage_logs, Identity(t), utcnow) > 0

\* A /v1/predict-volume request asks for a muscle group that the tier of its
\* session's user does not see.
Forbidden(t) ==
    /\ InProgress(t)
    /\ request[t].endpoint = PredictV1
    /\ request[t].body.muscle_group \notin get_available_muscle_groups(local[t].subscription_tier)

\* C4: the catalog-visibility check comes before the quota check: the first
\* segment of a request for a muscle group outside the tier's visible set
\* ends it with 403 and inserts no usage row, whatever the usage count is.
C4_AuthorizingBeforeQuota ==
    [][\A t \in Tasks : (Forbidden(t) /\ Steps(t)) =>
            /\ usage_logs' = usage_logs
            /\ pc'[t] = "done" /\ response'[t].status = 403]_vars

\* C5: the branch that the decision order of the specification selects, with
\* each condition written out (first match wins), and the text of the branch.
ExpectedBranch(a) ==
    LET l == volume_landmarks[a.muscle_group][a.training_level]
        n == a.current_sets
        toMEV == n < l.MEV
        toMAV == ~toMEV /\ n < l.MAV /\ a.recovered = "yes"
        toMRV == ~toMEV /\ ~toMAV /\ n > l.MRV /\ a.recovered = "no"
    IN CASE a.progress = "yes" -> "maintain"
         [] a.progress = "no" /\ toMEV -> "increase to MEV"
         [] a.progress = "no" /\ toMAV -> "increase to MAV"
         [] a.progress = "no" /\ toMRV -> "decrease to MRV"
         [] a.progress = "no" /\ ~toMEV /\ ~toMAV /\ ~toMRV -> "maintain, reassess next week"
         [] a.progress = "unclear" -> "reassess in two weeks"

BranchText(branch, l) ==
    CASE branch = "maintain" -> <<"No change needed - continue current volume">>
      [] branch = "increase to MEV" -> <<"Increase to at least", l.MEV, "sets per week (MEV)">>
      [] branch = "increase to MAV" -> <<"Increase to at least", l.MAV, "sets per week (MAV)">>
      [] branch = "decrease to MRV" -> <<"Decrease to at most", l.MRV, "sets per week (MRV)">>
      [] branch = "maintain, reassess next week" -> <<"Maintain current volume and reassess next week">>
      [] branch = "reassess in two weeks" -> <<"Reassess in two weeks with clearer progress indicators">>

\* C5: for every muscle group of the catalog, every training level, progress
\* and recovered value and every positive current_sets, recommend_volume
\* returns the text of the branch the decision order selects; at MEV with
\* recovered=yes that is 'increase to MAV', and from MAV to MRV with
\* recovered=no it is 'maintain, reassess next week'.
C5_DecisionOrder ==
    (call.returned /\ call.args.muscle_group \in DOMAIN volume_landmarks) =>
        LET a == call.args
            l == volume_landmarks[a.muscle_group][a.training_level]
        IN /\ call.result = BranchText(ExpectedBranch(a), l)
           /\ (a.progress = "no" /\ a.current_sets = l.MEV /\ a.recovered = "yes") =>
                 call.result = <<"Increase to at least", l.MAV, "sets per week (MAV)">>
           /\ (a.progress = "no" /\ a.current_sets >= l.MAV /\ a.current_sets <= l.MRV
                    /\ a.recovered = "no") =>
                 call.result = <<"Maintain current volume and reassess next week">>

\* C5, witness: recommend_volume has returned 'increase to MAV' for a call
\* with progress=no, recovered=yes and current_sets equal to MEV.
C5_Witness ==
    /\ call.returned
    /\ call.args.muscle_group \in DOMAIN volume_landmarks
    /\ call.args.progress = "no" /\ call.args.recovered = "yes"
    /\ LET l == volume_landmarks[call.args.muscle_group][call.args.training_level]
       IN /\ call.args.current_sets = l.MEV
          /\ call.result = <<"Increase to at least", l.MAV, "sets per week (MAV)">>

\* C6: the tier of an identity never goes down: no step lowers the rank of a
\* user's subscription_tier.
C6_TierMonotone ==
    [][\A u \in Users :
            tier_hierarchy(subscription_tier'[u]) >= tier_hierarchy(subscription_tier[u])]_vars

\* Task t runs the handler of an upgrade request.
Upgrades(t) == pc[t] = "handler" /\ request[t].endpoint = Upgrade /\ Steps(t)

\* C7: an upgrade succeeds exactly when the requested tier ranks above the
\* identity's current tier; then the identity has the requested tier and the
\* response echoes it.  Otherwise it fails with 400 and the tier stays.
C7_UpgradeOnlyUpwards ==
    [][\A t \in Tasks : Upgrades(t) =>
        LET current == subscription_tier[Identity(t)]
            requested == request[t].tier
        IN IF tier_hierarchy(requested) > tier_hierarchy(current)
             THEN /\ response'[t].status = 200 /\ response'[t].new_tier = requested
                  /\ subscription_tier'[Identity(t)] = requested
             ELSE /\ response'[t].status = 400
                  /\ subscription_tier' = subscription_tier]_vars

\* C8: a request of a paid identity that has passed the visibility and quota
\* checks and computed its recommendation returns it with 200, whether or not
\* the commit of the history row succeeds.
C8_PersistFailureSwallowed ==
    [][\A t \in Tasks : (pc[t] = "commit_history" /\ Steps(t)) =>
            /\ response'[t].status = 200
            /\ response'[t].volume_prediction = local[t].prediction]_vars

\* A recommendation request (either endpoint).
Recommends(t) == request[t].endpoint \in {PredictV1, PredictLegacy}
Paid(tier) == tier \in {"pro", "enterprise"}

\* C9: a recommendation request answered with a recommendation for a pro or
\* enterprise identity inserts exactly one history row of that identity, and
\* a request of a free identity, or one that is rejected, inserts none; on
\* every endpoint that returns a recommendation.
C9_HistoryMatchesAccepted ==
    [][\A t \in Tasks : (Responds(t) /\ Recommends(t)) =>
        IF response'[t].status = 200 /\ Paid(local[t].subscription_tier)
          THEN \E row \in DOMAIN training_history' :
                  /\ row.user_id = Identity(t)
                  /\ training_history' = Insert(training_history, row)
          ELSE training_history' = training_history]_vars

\* C10 as stated: a successful recommendation response, of either endpoint,
\* carries the landmarks of (muscle_group, training_level) if the tier is
\* not free, and none if it is free.
C10_LandmarksIffPaid_AnyEndpoint ==
    \A t \in Tasks : (pc[t] = "done" /\ Recommends(t) /\ response[t].status = 200) =>
        response[t].landmarks =
            IF local[t].subscription_tier # "free"
              THEN {volume_landmarks[request[t].body.muscle_group][request[t].body.training_level]}
              ELSE {}

\* C10, amended: a successful /v1/predict-volume response carries the
\* landmarks of (muscle_group, training_level) if the tier is not free, and
\* none if it is free; a response of the legacy endpoint carries none.
C10_LandmarksIffPaid ==
    \A t \in Tasks : (pc[t] = "done" /\ Recommends(t) /\ response[t].status = 200) =>
        response[t].landmarks =
            IF local[t].subscription_tier # "free" /\ request[t].endpoint = PredictV1
              THEN {volume_landmarks[request[t].body.muscle_group][request[t].body.training_level]}
              ELSE {}

\* C10, witness: a /v1/predict-volume request of a paid identity has been
\* answered with 200 and the landmarks of its muscle group and level.
C10_Witness ==
    \E t \in Tasks :
        /\ pc[t] = "done" /\ request[t].endpoint = PredictV1 /\ response[t].status = 200
        /\ Paid(local[t].subscription_tier)
        /\ response[t].landmarks = {volume_landmarks[request[t].body.muscle_group][request[t].body.training_level]}

\* The ten muscle groups of the catalog.
Catalog == {"chest", "back", "shoulders", "biceps", "triceps", "quads", "hamstrings",
            "glutes", "calves", "abs"}

\* The body of task t's subscription-info response.
InfoOf(t) == CHOOSE i \in response[t].info : TRUE
Informed(t) == pc[t] = "done" /\ request[t].endpoint = Info /\ response[t].status = 200

\* C11: chest is visible to every tier, the free tier sees exactly chest, and
\* pro and enterprise see the ten groups of the catalog; the subscription
\* info of an identity lists the visible set of its tier.
C11_TierVisibility ==
    /\ \A tier \in Tiers :
        /\ "chest" \in get_available_muscle_groups(tier)
        /\ tier = "free" => get_available_muscle_groups(tier) = {"chest"}
        /\ tier \in {"pro", "enterprise"} => get_available_muscle_groups(tier) = Catalog
    /\ \A t \in Tasks : Informed(t) =>
        /\ "chest" \in InfoOf(t).available_muscle_groups
        /\ InfoOf(t).tier = "free" => InfoOf(t).available_muscle_groups = {"chest"}
        /\ InfoOf(t).tier \in {"pro", "enterprise"} =>
                InfoOf(t).available_muscle_groups = Catalog

\* C11, witness: the subscription info of an enterprise identity lists the
\* ten groups.
C11_Witness ==
    \E t \in Tasks :
        /\ Informed(t)
        /\ InfoOf(t).tier = "enterprise"
        /\ Cardinality(InfoOf(t).available_muscle_groups) = 10

\* A request arrives at task t.
Arrives(t) == arrivals' = arrivals + 1 /\ request'[t] # NoRequest /\ t = FreeTask

C13_UnknownMuscleGroup ==
    call.returned => (call.result = ValueError <=> call.args.muscle_group \notin Catalog)

\* C13, witness: a call with a muscle group outside the catalog and
\* progress=yes has raised the ValueError.
C13_Witness ==
    /\ call.returned
    /\ call.args.muscle_group = "forearms"
    /\ call.args.progress = "yes"
    /\ call.result = ValueError

\* The number of rows of the usage log that user u has on day d.
EventsOn(logs, u, d) ==
    LET rows == {row \in DOMAIN logs : row.user_id = u /\ row.created_at = d}
    IN BagCardinality([row \in rows |-> logs[row]])

\* C14: the count that admits or denies a request is the number of the
\* identity's usage rows dated today: the check denies exactly when that
\* number has reached the limit of the session's tier, so a request of an
\* identity with no row of today is admitted whatever rows of earlier days it
\* has.  No step removes a usage row, and midnight leaves the table as it is.
C14_CountScopedToToday ==
    [][/\ \A t \in Tasks : Checks(t) =>
            LET today == EventsOn(usage_logs, local[t].user_id, utcnow)
                limit == DailyLimit(local[t].subscription_tier)
            IN /\ today < limit => pc'[t] = "commit_usage"
               /\ today >= limit => pc'[t] = "done" /\ response'[t].status = 429
               /\ today = 0 => pc'[t] = "commit_usage"
       /\ \A row \in DOMAIN usage_logs :
            row \in DOMAIN usage_logs' /\ usage_logs'[row] >= usage_logs[row]
       /\ utcnow' # utcnow => usage_logs' = usage_logs]_vars

\* C14, witness: an identity that has as many rows of day 0 as its tier allows
\* has a row of day 1 as well.
C14_Witness ==
    \E u \in Users :
        /\ utcnow = 1
        /\ EventsOn(usage_logs, u, 0) = DailyLimit(subscription_tier[u])
        /\ EventsOn(usage_logs, u, 1) > 0

C16_LandmarkOrdering ==
    /\ \A g \in DOMAIN volume_landmarks : \A level \in DOMAIN volume_landmarks[g] :
        /\ volume_landmarks[g][level].MEV <= volume_landmarks[g][level].MAV
        /\ volume_landmarks[g][level].MAV <= volume_landmarks[g][level].MRV
    /\ call.args.muscle_group \in DOMAIN volume_landmarks =>
        LET landmarks == volume_landmarks[call.args.muscle_group][call.args.training_level]
        IN landmarks.MEV <= landmarks.MAV /\ landmarks.MAV <= landmarks.MRV

\* C16, witness: recommend_volume has answered from the entry of the table
\* with the largest MRV (back, advanced: 14, 20, 26).
C16_Witness ==
    /\ call.returned
    /\ call.args.muscle_group = "back" /\ call.args.training_level = "advanced"
    /\ call.args.progress = "no" /\ call.args.recovered = "no" /\ call.args.current_sets = 27
    /\ call.result = <<"Decrease to at most", 26, "sets per week (MRV)">>

\* The daily limits of the specification's table.
ExpectedLimit(tier) ==
    CASE tier = "free" -> 100 [] tier = "pro" -> 10000 [] tier = "enterprise" -> 1000000

Recommended(t) == pc[t] = "done" /\ Recommends(t) /\ response[t].status = 200

UsageRecorded(t) == pc[t] = "commit_history"

\* C19: a request that is cancelled at one of its awaits has not added to the
\* quota: when the task is cancelled, no usage row of its request is stored.
C19_AbandonedNotCounted ==
    [][\A t \in Tasks : (InProgress(t) /\ pc'[t] = "cancelled") => ~UsageRecorded(t)]_vars

\* Task t's /v1/predict-volume request has passed the muscle-group check.
Authorized(t) ==
    /\ request[t].endpoint = PredictV1
    /\ \/ pc[t] = "commit_history"
       \/ pc[t] = "done" /\ response[t].status \in {200, 400, 500}

\* C20: every muscle group that a tier sees has an entry of the landmark table
\* for each of the three training levels, so a request that has passed the
\* muscle-group check has its recommendation: recommend_volume has not raised
\* the ValueError, and the request is not answered 400.
C20_VisibleGroupsHaveLandmarks ==
    /\ \A tier \in Tiers : \A g \in get_available_muscle_groups(tier) :
        /\ g \in DOMAIN volume_landmarks
        /\ DOMAIN volume_landmarks[g] = TrainingLevels
    /\ \A t \in Tasks : Authorized(t) =>
        /\ response[t].status # 400
        /\ local[t].prediction # ValueError
        /\ local[t].prediction = recommend_volume(request[t].body.current_sets,
                request[t].body.training_level, request[t].body.progress,
                request[t].body.recovered, request[t].body.muscle_group)

\* C20, witness: a pro identity's request for back, a group only paid tiers
\* see, has passed the muscle-group check and has its recommendation.
C20_Witness ==
    \E t \in Tasks :
        /\ Authorized(t)
        /\ request[t].body.muscle_group = "back"
        /\ local[t].prediction = <<"Increase to at least", 16, "sets per week (MAV)">>

\* Task s, working for another identity than u, takes a step.
OtherSteps(s, u) == (pc'[s] # pc[s] \/ request'[s] # request[s]) /\ local'[s].user_id # u

\* C22: the quota decision for an identity depends on its own tier and its own
\* usage rows of today only.  A check admits or denies by these alone; no step
\* of a request of another identity changes them; and the check of a request
\* can be taken whatever the requests of other identities are doing.
C22_IdentitiesIndependent ==
    /\ [][\A t \in Tasks : Checks(t) =>
            LET own == EventsOn(usage_logs, local[t].user_id, utcnow)
                limit == DailyLimit(local[t].subscription_tier)
            IN IF own < limit THEN pc'[t] = "commit_usage"
                              ELSE pc'[t] = "done" /\ response'[t].status = 429]_vars
    /\ [][\A u \in Users : \A s \in Tasks : OtherSteps(s, u) =>
            /\ subscription_tier'[u] = subscription_tier[u]
            /\ \A d \in Days : EventsOn(usage_logs', u, d) = EventsOn(usage_logs, u, d)]_vars
    /\ [](\A t \in Tasks : (pc[t] = "handler" /\ RateLimited(request[t].endpoint)) =>
            ENABLED check_rate_limit_count(t))

\* C22, witness: the checks of two requests of different identities have both
\* admitted, and neither request has yet committed its usage row.
C22_Witness ==
    \E t1, t2 \in Tasks :
        /\ pc[t1] = "commit_usage" /\ pc[t2] = "commit_usage"
        /\ local[t1].user_id # local[t2].user_id

Governing(t) == local[t].subscription_tier

\* C26: one tier value governs every stage of a recommendation request, also
\* when an upgrade of its identity commits while it is suspended.  The value
\* stays the same as long as the request is in progress; the check applies
\* the limit of that value; the muscle-group check, the decision to store a
\* history row and the landmarks of the response follow that value.
C26_SingleTierPerRequest ==
    [][\A t \in Tasks : (InProgress(t) /\ Recommends(t) /\ Steps(t)) =>
        LET tier == Governing(t)
            body == request[t].body
        IN /\ local'[t].subscription_tier = tier
           /\ Checks(t) =>
                (pc'[t] = "commit_usage" <=>
                    EventsOn(usage_logs, local[t].user_id, utcnow) < DailyLimit(tier))
           /\ (pc[t] = "commit_usage" /\ request[t].endpoint = PredictV1) =>
                /\ response'[t].status = 403 <=>
                        body.muscle_group \notin get_available_muscle_groups(tier)
                /\ pc'[t] = "commit_history" <=>
                        (body.muscle_group \in get_available_muscle_groups(tier) /\ Paid(tier))
           /\ (request[t].endpoint = PredictV1 /\ response'[t].status = 200) =>
                /\ response'[t].landmarks # None <=> Paid(tier)
                /\ training_history' # training_history <=> Paid(tier)]_vars

\* C26, witness: a request that was authenticated as free has been answered
\* as free (no landmarks, no history row) after an upgrade of its identity to
\* pro has been committed.
C26_Witness ==
    \E t \in Tasks :
        /\ pc[t] = "done" /\ request[t].endpoint = PredictV1 /\ response[t].status = 200
        /\ Governing(t) = "free"
        /\ subscription_tier[Identity(t)] = "pro"
        /\ response[t].landmarks = None
        /\ training_history = EmptyBag

\* Task t's request is a history or analytics query.
Queries(t) == request[t].endpoint \in QueryEndpoints

\* C24: a history or analytics query of a free identity is answered 403 by
\* the first step of its handler, whatever the identity's count is, and no
\* step of it changes the usage log.  A query of a pro or enterprise identity
\* is never answered 403: its first step is the quota check (429 when today's
\* count has reached the limit, and nothing stored), the next step stores one
\* usage row of the identity with the query's endpoint and today's date, and
\* the last step answers 200 and stores nothing.
C24_FreeQueriesForbiddenBeforeQuota ==
    [][\A t \in Tasks : (InProgress(t) /\ Queries(t) /\ Steps(t)) =>
        LET tier == Governing(t)
            u == local[t].user_id
        IN /\ (tier = "free" \/ subscription_tier[u] = "free") =>
                /\ response'[t].status = 403
                /\ pc'[t] = "done"
                /\ usage_logs' = usage_logs
           /\ Paid(tier) =>
                /\ response'[t].status # 403
                /\ pc[t] = "handler" =>
                    /\ usage_logs' = usage_logs
                    /\ pc'[t] = "commit_usage" <=> EventsOn(usage_logs, u, utcnow) < DailyLimit(tier)
                    /\ pc'[t] # "commit_usage" => response'[t].status = 429
                /\ pc[t] = "commit_usage" =>
                    /\ usage_logs' = usage_logs (+) SetToBag({[user_id |-> u,
                            endpoint |-> request[t].endpoint, created_at |-> utcnow]})
                    /\ EventsOn(usage_logs', u, utcnow) = EventsOn(usage_logs, u, utcnow) + 1
                /\ pc[t] = "query" =>
                    /\ usage_logs' = usage_logs
                    /\ response'[t].status = 200]_vars

\* C24, witness: a query of a free identity that has used up its quota of
\* today has been answered 403 (and not 429), and the usage log holds the one
\* row of the identity's recommendation.
C24_Witness ==
    \E t \in Tasks :
        /\ pc[t] = "done" /\ Queries(t) /\ response[t].status = 403
        /\ subscription_tier[local[t].user_id] = "free"
        /\ EventsOn(usage_logs, local[t].user_id, utcnow) = DailyLimit("free")
        /\ BagCardinality(usage_logs) = 1
        /\ \A row \in DOMAIN usage_logs : ~(row.endpoint \in QueryEndpoints)

\* Task t is at the quota check of a rate-limited route: the recommendation
\* routes, and the query routes for a tier that is not free.
ChecksQuota(t) ==
    /\ pc[t] = "handler"
    /\ \/ Recommends(t)
       \/ Queries(t) /\ Paid(Governing(t))

\* The endpoints of today's usage rows of user u.
EndpointsOf(u) == {row.endpoint : row \in {r \in DOMAIN usage_logs :
                                            r.user_id = u /\ r.created_at = utcnow}}

\* C25: with requests handled one at a time, the quota is one counter per
\* identity for all rate-limited routes.  The check of each of the four
\* routes admits the request exactly when the number of today's usage rows of
\* the identity, whatever their endpoint, is below the limit of its tier, and
\* the usage rows of an identity on one day, of all endpoints together, never
\* exceed the limit of its tier.
C25_OneCounterForAllEndpoints ==
    /\ [](\A u \in Users : \A d \in Days :
            EventsOn(usage_logs, u, d) <= DailyLimit(subscription_tier[u]))
    /\ [][\A t \in Tasks : (ChecksQuota(t) /\ Steps(t)) =>
            LET today == EventsOn(usage_logs, local[t].user_id, utcnow)
                limit == DailyLimit(Governing(t))
            IN /\ pc'[t] = "commit_usage" <=> today < limit
               /\ today >= limit => response'[t].status = 429]_vars

\* C25, witness: a pro identity has been admitted on /v1/history and on
\* /v1/analytics today, which is its limit, and its recommendation request
\* has been answered 429.
C25_Witness ==
    \E t \in Tasks :
        /\ pc[t] = "done" /\ request[t].endpoint = PredictV1 /\ response[t].status = 429
        /\ Governing(t) = "pro"
        /\ EndpointsOf(local[t].user_id) = {History, Analytics}
        /\ EventsOn(usage_logs, local[t].user_id, utcnow) = DailyLimit("pro")

\* C21: the usage log and the history log only grow: every step of every
\* route (recommendation, history and analytics query, subscription query,
\* upgrade, making and deleting an API key), a cancellation and midnight
\* leave every row of usage_logs and of training_history in its table, with
\* its values and as many times as before.
C21_LogsAppendOnly ==
    [][/\ usage_logs \sqsubseteq usage_logs'
       /\ training_history \sqsubseteq training_history']_vars

\* C21, witness: a user has deleted the key it has used, and the usage row
\* that its recommendation stored is in the table.
C21_Witness ==
    \E t \in Tasks :
        /\ pc[t] = "done" /\ request[t].endpoint = DeleteKey /\ response[t].status = 200
        /\ request[t].api_key \notin DOMAIN last_used_at
        /\ EventsOn(usage_logs, local[t].user_id, utcnow) > 0

====
